---- MODULE Spec2Model ----
(***************************************************************************)
(* Model of the DICE command line client (src/src/main.rs).                *)
(*                                                                         *)
(* The program is one main thread that parses the command line, picks an   *)
(* action and runs it step by step; download_output_artifacts also spawns  *)
(* tokio tasks.  Everything outside the program (the remote API, the HTTP  *)
(* upload/download targets, the child processes make/tar/rm, the file      *)
(* system calls) answers nondeterministically with one of the results the  *)
(* Rust API can return; the model keeps what the code does with each.      *)
(* `trace` is the history of the externally visible steps, in order.       *)
(***************************************************************************)
EXTENDS Integers, Sequences, FiniteSets, TLC

\* ---------------------------------------------------------------- bounds
MaxArtifacts == 2      \* most artifacts the remote list returns
MaxFlags == 2          \* most action flags given on one command line
MaxMissing == 1        \* most value options left out of one command line

\* ------------------------------------------------------------- vocabulary
\* the boolean action flags of Arguments
ActionFlags ==
    {"create_runtime", "create_input_artifact", "create_project", "create_job",
     "create_job_execution", "get_job_execution", "list_notifications",
     "download_output_artifacts"}

\* the Option<..> value arguments of Arguments
Options ==
    {"name", "description", "project_id", "job_id", "job_execution_id",
     "runtime_id", "input_artifact_ids", "file"}

\* std::process::Command::status(): Err (the child could not be started), or
\* Ok(ExitStatus) with a zero or a non-zero exit code
CmdOutcome == {"success", "exit_failure", "spawn_error"}

\* a call whose Result the code unwraps, or an SDK call that returns or panics
CallOutcome == {"ok", "err"}

\* reqwest send()/get(): Err (transport), or Ok(response) whatever the status
HttpOutcome == {"transport_error", "http_success", "http_error"}

\* job_execution::Status: Completed and the other values
JobExecutionStatus == {"Completed", "Execution", "Failed"}

\* contents of a file as far as the program's writes determine them
Content == {"absent", "empty", "partial", "full"}

\* directories the program works in: where it was started, the job directory
Dirs == {".", "job"}

ArtifactIds == 1 .. MaxArtifacts

InputTar == <<"input_tar", 0>>
Tar(i) == <<"tar", i>>
Extracted(i) == <<"extracted", i>>
FileNames == {InputTar} \cup {Tar(i) : i \in ArtifactIds} \cup {Extracted(i) : i \in ArtifactIds}

\* directory entries as read_dir(".") gives them, a path being a sequence of
\* characters; "\\xFF" stands for a byte that is not valid UTF-8
DotDice == <<".", "d", "i", "c", "e">>
PathMarker == <<".", "/">> \o DotDice
PathPlain == <<".", "/", "d", "i", "c", "e">>
PathInside == <<".", "/", "x">> \o DotDice \o <<"y">>
PathNotUtf8 == <<".", "/", "\\xFF">>
Paths == {PathMarker, PathPlain, PathInside, PathNotUtf8}
\* list_files_in_dir(root): Err, or Ok with the entries
Listings ==
    {[res |-> "Err", files |-> {}]} \cup {[res |-> "Ok", files |-> s] : s \in SUBSET Paths}

VARIABLES
    flags,        \* the action flags given on the command line
    opts,         \* the value options given on the command line
    pc,           \* position of the main thread
    todo,         \* actions main has still to run
    executed,     \* actions main has entered, in order
    exit,         \* "running", or how the process ended
    listing,      \* what read_dir(".") returned to is_directory_dice_runtime
    fs,           \* [Dirs \X FileNames -> Content]: the files the program touches
    dirs,         \* directories that exist
    cwd,          \* the process's current directory
    runtime,      \* remote runtime record: "none", "Created", "Active"
    artifact,     \* remote input artifact record: "none", "Created", "Active"
    stored,       \* kinds ("runtime", "artifact") whose bytes the upload target accepted
    job_status,   \* status of the fetched job execution, or "none"
    artifacts,    \* the listed output artifacts (a sequence of ids)
    next_idx,     \* how many elements the lazy task_handles iterator has yielded
    awaiting,     \* the handle main is awaiting (0: none)
    task,         \* [ArtifactIds -> position of that artifact's task]
    untar_input,  \* [ArtifactIds -> content of the tar file when tar -xvf ran]
    trace         \* history of the steps taken

vars == <<flags, opts, pc, todo, executed, exit, listing, fs, dirs, cwd, runtime,
          artifact, stored, job_status, artifacts, next_idx, awaiting, task,
          untar_input, trace>>

mainVars == <<flags, opts>>
fsVars == <<fs, dirs, cwd>>
remoteVars == <<runtime, artifact, stored>>
downloadVars == <<job_status, artifacts, next_idx, awaiting, task, untar_input>>

Ev(op, id, out) == [op |-> op, id |-> id, out |-> out]
Log(op, id, out) == trace' = Append(trace, Ev(op, id, out))

\* a panic on the main thread ends the process with a failure status
Panic == pc' = "done" /\ exit' = "panic"
\* the action function returns to main
Return == pc' = "main" /\ exit' = exit

\* ------------------------------------------------------------ pure helpers
\* str::contains
Contains(s, pat) ==
    \E k \in 0 .. (Len(s) - Len(pat)) : SubSeq(s, k + 1, k + Len(pat)) = pat

\* Path::to_str: None when the path is not valid UTF-8
to_str_ok(path) == \A k \in 1 .. Len(path) : path[k] # "\\xFF"

RECURSIVE scan_files(_, _)
\* the for_each of is_directory_dice_runtime over the files still to visit:
\* unwrap() panics on a path that is not UTF-8, a path containing ".dice"
\* sets result
scan_files(files, result) ==
    IF files = {} THEN result
    ELSE LET path == CHOOSE p \in files : TRUE
         IN IF ~to_str_ok(path) THEN "panic"
            ELSE scan_files(files \ {path},
                            IF Contains(path, DotDice) THEN "true" ELSE result)

RECURSIVE scan_files_any(_, _)
\* variant of scan_files: result is set for every readable path
scan_files_any(files, result) ==
    IF files = {} THEN result
    ELSE LET path == CHOOSE p \in files : TRUE
         IN IF ~to_str_ok(path) THEN "panic"
            ELSE scan_files_any(files \ {path}, "true")

\* variant: any directory entry counts as the marker
is_directory_dice_runtime_any(l) ==
    IF l.res = "Err" THEN "false" ELSE scan_files_any(l.files, "false")

\* is_directory_dice_runtime(root): "true", "false", or "panic" (the unwrap)
is_directory_dice_runtime(l) ==
    IF l.res = "Err" THEN "false" ELSE scan_files(l.files, "false")

\* the options each action takes with expect(..) before it is called
Required(a) ==
    CASE a = "create_runtime" -> {"name", "project_id"}
      [] a = "create_input_artifact" -> {"project_id", "file"}
      [] a = "create_project" -> {"description"}
      [] a = "create_job" -> {"project_id", "runtime_id", "input_artifact_ids"}
      [] a = "create_job_execution" -> {"job_id"}
      [] a = "get_job_execution" -> {"job_execution_id"}
      [] a = "download_output_artifacts" -> {"job_execution_id"}

\* the order of the branches of main
Branches ==
    <<"create_runtime", "create_input_artifact", "create_project", "create_job",
      "create_job_execution", "get_job_execution", "download_output_artifacts">>

\* variant: independent ifs instead of an else-if chain
main_select_all(f) ==
    SelectSeq(Branches, LAMBDA a : a \in f)

\* the if / else if chain of main: the first branch whose flag is set, if any
main_select(f) ==
    LET set == SelectSeq(Branches, LAMBDA a : a \in f)
    IN IF set = <<>> THEN <<>> ELSE <<Head(set)>>

\* first position of the action function a
Entry(a) ==
    CASE a = "create_runtime" -> "cr_check"
      [] a = "create_input_artifact" -> "ia_tar"
      [] a = "download_output_artifacts" -> "do_get"
      [] OTHER -> "call"

\* ------------------------------------------------------------------ Init
Init ==
    /\ flags \in {f \in SUBSET ActionFlags : Cardinality(f) <= MaxFlags}
    /\ opts \in {o \in SUBSET Options : Cardinality(Options \ o) <= MaxMissing}
    /\ pc = "parse"
    /\ todo = <<>>
    /\ executed = <<>>
    /\ exit = "running"
    /\ listing = [res |-> "unread", files |-> {}]
    \* a tar file of an earlier run may still lie next to the input file
    /\ \E c \in {"absent", "full"} :
         fs = [f \in Dirs \X FileNames |-> IF f = <<".", InputTar>> THEN c ELSE "absent"]
    /\ dirs = {"."}
    /\ cwd = "."
    /\ runtime = "none"
    /\ artifact = "none"
    /\ stored = {}
    /\ job_status = "none"
    /\ artifacts = <<>>
    /\ next_idx = 0
    /\ awaiting = 0
    /\ task = [i \in ArtifactIds |-> "unspawned"]
    /\ untar_input = [i \in ArtifactIds |-> "none"]
    /\ trace = <<>>

\* ------------------------------------------------------------------ main
\* Arguments::parse(): clap ends the process itself on a usage error
parse ==
    /\ pc = "parse" /\ exit = "running"
    /\ \E r \in CallOutcome :
         IF r = "ok"
         THEN pc' = "main" /\ exit' = exit /\ todo' = main_select(flags)
         ELSE pc' = "done" /\ exit' = "usage" /\ todo' = todo
    /\ UNCHANGED <<mainVars, executed, listing, fsVars, remoteVars, downloadVars, trace>>

\* main: take the selected branch, evaluate its expect(..) arguments, call it;
\* with no branch left main returns
main ==
    /\ pc = "main" /\ exit = "running"
    /\ IF todo = <<>>
       THEN pc' = "done" /\ exit' = "ok" /\ UNCHANGED <<todo, executed>>
       ELSE LET a == Head(todo)
            IN /\ todo' = Tail(todo)
               /\ IF Required(a) \subseteq opts
                  THEN pc' = Entry(a) /\ exit' = exit /\ executed' = Append(executed, a)
                  ELSE Panic /\ executed' = executed
    /\ UNCHANGED <<mainVars, listing, fsVars, remoteVars, downloadVars, trace>>

\* ------------------------------------------------------- create_runtime
\* match upload_response { Ok(_) => .., Err(err) => .. } as written
upload_ok(r) == r # "transport_error"

\* if is_directory_dice_runtime(".") { .. } else { println!("NOT IN A DICE RUNTIME") }
cr_check ==
    /\ pc = "cr_check" /\ exit = "running"
    /\ \E l \in Listings :
         /\ listing' = l
         /\ LET r == is_directory_dice_runtime(l)
            IN /\ Log("marker_check", 0, r)
               /\ CASE r = "panic" -> Panic
                    [] r = "true" -> pc' = "cr_clean" /\ exit' = exit
                    [] r = "false" -> Return
    /\ UNCHANGED <<mainVars, todo, executed, fsVars, remoteVars, downloadVars>>

\* Command::new("make").arg("clean").status().expect(..): the exit code is not read
cr_clean ==
    /\ pc = "cr_clean" /\ exit = "running"
    /\ \E o \in CmdOutcome :
         /\ Log("make_clean", 0, o)
         /\ IF o = "spawn_error" THEN Panic ELSE pc' = "cr_build" /\ exit' = exit
    /\ UNCHANGED <<mainVars, todo, executed, listing, fsVars, remoteVars, downloadVars>>

\* Command::new("make").arg("build").status().expect(..): the exit code is not read
cr_build ==
    /\ pc = "cr_build" /\ exit = "running"
    /\ \E o \in CmdOutcome :
         /\ Log("make_build", 0, o)
         /\ IF o = "spawn_error" THEN Panic ELSE pc' = "cr_create" /\ exit' = exit
    /\ UNCHANGED <<mainVars, todo, executed, listing, fsVars, remoteVars, downloadVars>>

\* rust_sdk::api::runtime::create(..).await
cr_create ==
    /\ pc = "cr_create" /\ exit = "running"
    /\ \E r \in CallOutcome :
         /\ Log("runtime_create", 0, r)
         /\ IF r = "ok"
            THEN runtime' = "Created" /\ pc' = "cr_open" /\ exit' = exit
            ELSE runtime' = runtime /\ Panic
    /\ UNCHANGED <<mainVars, todo, executed, listing, fsVars, artifact, stored, downloadVars>>

\* File::open("target/wasm32-wasi/release/<dir>.tar").expect(..)
cr_open ==
    /\ pc = "cr_open" /\ exit = "running"
    /\ \E r \in CallOutcome :
         /\ Log("open_tar", 0, r)
         /\ IF r = "ok" THEN pc' = "cr_read" /\ exit' = exit ELSE Panic
    /\ UNCHANGED <<mainVars, todo, executed, listing, fsVars, remoteVars, downloadVars>>

\* file.read_to_end(&mut buffer).expect(..)
cr_read ==
    /\ pc = "cr_read" /\ exit = "running"
    /\ \E r \in CallOutcome :
         /\ Log("read_tar", 0, r)
         /\ IF r = "ok" THEN pc' = "cr_put" /\ exit' = exit ELSE Panic
    /\ UNCHANGED <<mainVars, todo, executed, listing, fsVars, remoteVars, downloadVars>>

\* reqwest::Client::new().put(uri).body(buffer).send().await and the match on it
cr_put ==
    /\ pc = "cr_put" /\ exit = "running"
    /\ \E r \in HttpOutcome :
         /\ Log("put", 0, r)
         /\ stored' = IF r = "http_success" THEN stored \cup {"runtime"} ELSE stored
         /\ IF upload_ok(r) THEN pc' = "cr_update" /\ exit' = exit ELSE Return
    /\ UNCHANGED <<mainVars, todo, executed, listing, fsVars, runtime, artifact, downloadVars>>

\* rust_sdk::api::runtime::update(id, UpdateRuntimeDTO { status: Active }).await
cr_update ==
    /\ pc = "cr_update" /\ exit = "running"
    /\ \E r \in CallOutcome :
         /\ Log("runtime_update", 0, r)
         /\ IF r = "ok" THEN runtime' = "Active" /\ Return ELSE runtime' = runtime /\ Panic
    /\ UNCHANGED <<mainVars, todo, executed, listing, fsVars, artifact, stored, downloadVars>>

create_runtime ==
    \/ cr_check \/ cr_clean \/ cr_build \/ cr_create
    \/ cr_open \/ cr_read \/ cr_put \/ cr_update

\* ------------------------------------------------- create_input_artifact
\* Command::new("tar").arg("-czf").arg(tar_file_name).arg(file_name).status().expect(..)
ia_tar ==
    /\ pc = "ia_tar" /\ exit = "running"
    /\ \E o \in CmdOutcome :
         /\ Log("tar_create", 0, o)
         /\ fs' = IF o = "success" THEN [fs EXCEPT ![<<cwd, InputTar>>] = "full"] ELSE fs
         /\ IF o = "spawn_error" THEN Panic ELSE pc' = "ia_create" /\ exit' = exit
    /\ UNCHANGED <<mainVars, todo, executed, listing, dirs, cwd, remoteVars, downloadVars>>

\* rust_sdk::api::artifact::create(..).await
ia_create ==
    /\ pc = "ia_create" /\ exit = "running"
    /\ \E r \in CallOutcome :
         /\ Log("artifact_create", 0, r)
         /\ IF r = "ok"
            THEN artifact' = "Created" /\ pc' = "ia_open" /\ exit' = exit
            ELSE artifact' = artifact /\ Panic
    /\ UNCHANGED <<mainVars, todo, executed, listing, fsVars, runtime, stored, downloadVars>>

\* File::open(tar_file_name).expect(..): a missing file cannot be opened
ia_open ==
    /\ pc = "ia_open" /\ exit = "running"
    /\ \E r \in CallOutcome :
         /\ fs[<<cwd, InputTar>>] = "absent" => r = "err"
         /\ Log("open_tar", 0, r)
         /\ IF r = "ok" THEN pc' = "ia_read" /\ exit' = exit ELSE Panic
    /\ UNCHANGED <<mainVars, todo, executed, listing, fsVars, remoteVars, downloadVars>>

\* file.read_to_end(&mut buffer).expect(..)
ia_read ==
    /\ pc = "ia_read" /\ exit = "running"
    /\ \E r \in CallOutcome :
         /\ Log("read_tar", 0, r)
         /\ IF r = "ok" THEN pc' = "ia_put" /\ exit' = exit ELSE Panic
    /\ UNCHANGED <<mainVars, todo, executed, listing, fsVars, remoteVars, downloadVars>>

\* reqwest::Client::new().put(uri).body(buffer).send().await and the match on it
ia_put ==
    /\ pc = "ia_put" /\ exit = "running"
    /\ \E r \in HttpOutcome :
         /\ Log("put", 0, r)
         /\ stored' = IF r = "http_success" THEN stored \cup {"artifact"} ELSE stored
         /\ IF upload_ok(r) THEN pc' = "ia_rm" /\ exit' = exit ELSE Return
    /\ UNCHANGED <<mainVars, todo, executed, listing, fsVars, runtime, artifact, downloadVars>>

\* Command::new("rm").arg(tar_file_name).status().expect(..): the exit code is not read
ia_rm ==
    /\ pc = "ia_rm" /\ exit = "running"
    /\ \E o \in CmdOutcome :
         /\ Log("rm_tar", 0, o)
         /\ fs' = IF o = "success" THEN [fs EXCEPT ![<<cwd, InputTar>>] = "absent"] ELSE fs
         /\ IF o = "spawn_error" THEN Panic ELSE pc' = "ia_update" /\ exit' = exit
    /\ UNCHANGED <<mainVars, todo, executed, listing, dirs, cwd, remoteVars, downloadVars>>

\* rust_sdk::api::artifact::update(id, UpdateArtifactDTO { status: Active }).await
ia_update ==
    /\ pc = "ia_update" /\ exit = "running"
    /\ \E r \in CallOutcome :
         /\ Log("artifact_update", 0, r)
         /\ IF r = "ok" THEN artifact' = "Active" /\ Return ELSE artifact' = artifact /\ Panic
    /\ UNCHANGED <<mainVars, todo, executed, listing, fsVars, runtime, stored, downloadVars>>

create_input_artifact ==
    \/ ia_tar \/ ia_create \/ ia_open \/ ia_read \/ ia_put \/ ia_rm \/ ia_update

\* --------- create_project, create_job, create_job_execution, get_job_execution
\* variant: the request is sent a second time
api_call_twice(a, api) ==
    /\ pc = "call" /\ exit = "running"
    /\ executed # <<>> /\ executed[Len(executed)] = a
    /\ \E r \in CallOutcome :
         /\ trace' = trace \o <<Ev(api, 0, "ok"), Ev(api, 0, r)>>
         /\ IF r = "ok" THEN pc' = "show" /\ exit' = exit ELSE Panic
    /\ UNCHANGED <<mainVars, todo, executed, listing, fsVars, remoteVars, downloadVars>>

\* the one rust_sdk::api::..(..).await of the action function a
api_call(a, api) ==
    /\ pc = "call" /\ exit = "running"
    /\ executed # <<>> /\ executed[Len(executed)] = a
    /\ \E r \in CallOutcome :
         /\ Log(api, 0, r)
         /\ IF r = "ok" THEN pc' = "show" /\ exit' = exit ELSE Panic
    /\ UNCHANGED <<mainVars, todo, executed, listing, fsVars, remoteVars, downloadVars>>

\* the println! of the result that ends the action function a
show_result(a) ==
    /\ pc = "show" /\ exit = "running"
    /\ executed # <<>> /\ executed[Len(executed)] = a
    /\ Log("println", 0, a)
    /\ Return
    /\ UNCHANGED <<mainVars, todo, executed, listing, fsVars, remoteVars, downloadVars>>

create_project ==
    api_call("create_project", "project_create") \/ show_result("create_project")

create_job ==
    api_call("create_job", "job_create") \/ show_result("create_job")

create_job_execution ==
    \/ api_call("create_job_execution", "job_execution_create")
    \/ show_result("create_job_execution")

get_job_execution ==
    \/ api_call("get_job_execution", "job_execution_get")
    \/ show_result("get_job_execution")

\* ------------------------------------------------ download_output_artifacts
\* variant: the status is not looked at
not_completed_never(s) == FALSE

\* job_execution.status != JobExecutionStatus::Completed
not_completed(s) == s # "Completed"

\* variant: a failed join is dropped (let _ = handler.await)
join_failed_ignored(t) == FALSE

\* handler.await is Err when the task panicked; expect(..) then panics
join_failed(t) == t = "panicked"

\* rust_sdk::api::job_execution::get(job_execution_id).await
do_get ==
    /\ pc = "do_get" /\ exit = "running"
    /\ \E r \in CallOutcome, s \in JobExecutionStatus :
         IF r = "ok"
         THEN /\ Log("job_execution_get", 0, s)
              /\ job_status' = s /\ pc' = "do_check" /\ exit' = exit
         ELSE /\ Log("job_execution_get", 0, "err")
              /\ job_status' = job_status /\ Panic
    /\ UNCHANGED <<mainVars, todo, executed, listing, fsVars, remoteVars,
                   artifacts, next_idx, awaiting, task, untar_input>>

\* if job_execution.status != Completed { panic!(..) }
do_check ==
    /\ pc = "do_check" /\ exit = "running"
    /\ IF not_completed(job_status) THEN Panic ELSE pc' = "do_mkdir" /\ exit' = exit
    /\ UNCHANGED <<mainVars, todo, executed, listing, fsVars, remoteVars, downloadVars, trace>>

\* fs::create_dir_all(job_root_path).expect(..)
do_mkdir ==
    /\ pc = "do_mkdir" /\ exit = "running"
    /\ \E r \in CallOutcome :
         /\ Log("create_dir_all", 0, r)
         /\ IF r = "ok"
            THEN dirs' = dirs \cup {"job"} /\ pc' = "do_chdir" /\ exit' = exit
            ELSE dirs' = dirs /\ Panic
    /\ UNCHANGED <<mainVars, todo, executed, listing, fs, cwd, remoteVars, downloadVars>>

\* env::set_current_dir(job_root_path).expect(..)
do_chdir ==
    /\ pc = "do_chdir" /\ exit = "running"
    /\ \E r \in CallOutcome :
         /\ Log("set_current_dir", 0, r)
         /\ IF r = "ok"
            THEN cwd' = "job" /\ pc' = "do_list" /\ exit' = exit
            ELSE cwd' = cwd /\ Panic
    /\ UNCHANGED <<mainVars, todo, executed, listing, fs, dirs, remoteVars, downloadVars>>

\* rust_sdk::api::artifact::list(doc! {..}).await, and the lazy
\* artifacts.into_iter().map(|artifact| tokio::spawn(..)) built from it:
\* building the iterator runs the closure for no element
do_list ==
    /\ pc = "do_list" /\ exit = "running"
    /\ \E r \in CallOutcome, n \in 0 .. MaxArtifacts :
         IF r = "ok"
         THEN /\ Log("artifact_list", 0, "ok")
              /\ artifacts' = [k \in 1 .. n |-> k]
              /\ pc' = "do_next" /\ exit' = exit
         ELSE /\ Log("artifact_list", 0, "err")
              /\ artifacts' = artifacts /\ Panic
    /\ UNCHANGED <<mainVars, todo, executed, listing, fsVars, remoteVars,
                   job_status, next_idx, awaiting, task, untar_input>>

\* for handler in task_handles: next() on the Map iterator runs the closure
\* for one more artifact, which spawns its task; with no artifact left the
\* loop and the function end
do_next ==
    /\ pc = "do_next" /\ exit = "running"
    /\ IF next_idx < Len(artifacts)
       THEN LET id == artifacts[next_idx + 1]
            IN /\ next_idx' = next_idx + 1
               /\ task' = [task EXCEPT ![id] = "t_download"]
               /\ awaiting' = id
               /\ Log("spawn", id, "ok")
               /\ pc' = "do_await" /\ exit' = exit
       ELSE /\ Return
            /\ UNCHANGED <<next_idx, task, awaiting, trace>>
    /\ UNCHANGED <<mainVars, todo, executed, listing, fsVars, remoteVars,
                   job_status, artifacts, untar_input>>

\* handler.await.expect(..): resumes when the awaited task has ended
do_await ==
    /\ pc = "do_await" /\ exit = "running"
    /\ task[awaiting] \in {"finished", "panicked"}
    /\ Log("join", awaiting, task[awaiting])
    /\ awaiting' = 0
    /\ IF join_failed(task[awaiting]) THEN Panic ELSE pc' = "do_next" /\ exit' = exit
    /\ UNCHANGED <<mainVars, todo, executed, listing, fsVars, remoteVars,
                   job_status, artifacts, next_idx, task, untar_input>>

\* --- the spawned task of artifact i; a panic in it ends the task only
TaskStep(i, from, to) ==
    /\ exit = "running" /\ task[i] = from
    /\ task' = [task EXCEPT ![i] = to]

\* rust_sdk::api::artifact::download(artifact.id).await
t_download(i) ==
    /\ \E r \in CallOutcome :
         /\ TaskStep(i, "t_download", IF r = "ok" THEN "t_get" ELSE "panicked")
         /\ Log("artifact_download", i, r)
    /\ UNCHANGED <<mainVars, pc, todo, executed, exit, listing, fsVars, remoteVars,
                   job_status, artifacts, next_idx, awaiting, untar_input>>

\* reqwest::get(uri).await.unwrap(): Ok whatever the HTTP status
t_get(i) ==
    /\ \E r \in HttpOutcome :
         /\ TaskStep(i, "t_get", IF r = "transport_error" THEN "panicked" ELSE "t_create")
         /\ Log("get", i, r)
    /\ UNCHANGED <<mainVars, pc, todo, executed, exit, listing, fsVars, remoteVars,
                   job_status, artifacts, next_idx, awaiting, untar_input>>

\* File::create(&tar_file_path).unwrap(): the file exists and is empty
t_create(i) ==
    /\ \E r \in CallOutcome :
         /\ TaskStep(i, "t_create", IF r = "ok" THEN "t_bytes" ELSE "panicked")
         /\ Log("file_create", i, r)
         /\ fs' = IF r = "ok" THEN [fs EXCEPT ![<<cwd, Tar(i)>>] = "empty"] ELSE fs
    /\ UNCHANGED <<mainVars, pc, todo, executed, exit, listing, dirs, cwd, remoteVars,
                   job_status, artifacts, next_idx, awaiting, untar_input>>

\* response.bytes().await.unwrap()
t_bytes(i) ==
    /\ \E r \in CallOutcome :
         /\ TaskStep(i, "t_bytes", IF r = "ok" THEN "t_copy" ELSE "panicked")
         /\ Log("bytes", i, r)
    /\ UNCHANGED <<mainVars, pc, todo, executed, exit, listing, fsVars, remoteVars,
                   job_status, artifacts, next_idx, awaiting, untar_input>>

\* std::io::copy(&mut content, &mut artifact_file).expect(..): File is not
\* buffered, so on Ok every byte has reached the file
t_copy(i) ==
    /\ \E r \in CallOutcome :
         /\ TaskStep(i, "t_copy", IF r = "ok" THEN "t_untar" ELSE "panicked")
         /\ Log("copy", i, r)
         /\ fs' = [fs EXCEPT ![<<cwd, Tar(i)>>] = IF r = "ok" THEN "full" ELSE "partial"]
    /\ UNCHANGED <<mainVars, pc, todo, executed, exit, listing, dirs, cwd, remoteVars,
                   job_status, artifacts, next_idx, awaiting, untar_input>>

\* Command::new("tar").arg("-xvf").arg(tar_file_path).status().expect(..)
t_untar(i) ==
    /\ \E o \in CmdOutcome :
         /\ TaskStep(i, "t_untar", IF o = "spawn_error" THEN "panicked" ELSE "t_rm")
         /\ Log("untar", i, o)
         /\ untar_input' = IF o = "spawn_error" THEN untar_input
                           ELSE [untar_input EXCEPT ![i] = fs[<<cwd, Tar(i)>>]]
         /\ fs' = IF o = "success" THEN [fs EXCEPT ![<<cwd, Extracted(i)>>] = "full"] ELSE fs
    /\ UNCHANGED <<mainVars, pc, todo, executed, exit, listing, dirs, cwd, remoteVars,
                   job_status, artifacts, next_idx, awaiting>>

\* Command::new("rm").arg(tar_file_path).status().expect(..): the exit code is not read
t_rm(i) ==
    /\ \E o \in CmdOutcome :
         /\ TaskStep(i, "t_rm", IF o = "spawn_error" THEN "panicked" ELSE "finished")
         /\ Log("rm_tar", i, o)
         /\ fs' = IF o = "success" THEN [fs EXCEPT ![<<cwd, Tar(i)>>] = "absent"] ELSE fs
    /\ UNCHANGED <<mainVars, pc, todo, executed, exit, listing, dirs, cwd, remoteVars,
                   job_status, artifacts, next_idx, awaiting, untar_input>>

download_task ==
    \E i \in ArtifactIds :
        \/ t_download(i) \/ t_get(i) \/ t_create(i) \/ t_bytes(i)
        \/ t_copy(i) \/ t_untar(i) \/ t_rm(i)

download_output_artifacts ==
    \/ do_get \/ do_check \/ do_mkdir \/ do_chdir \/ do_list \/ do_next \/ do_await
    \/ download_task

Next ==
    \/ parse \/ main
    \/ create_runtime \/ create_input_artifact
    \/ create_project \/ create_job \/ create_job_execution \/ get_job_execution
    \/ download_output_artifacts

Spec == Init /\ [][Next]_vars

\* ------------------------------------------------------------ properties
Idx(op) == {k \in 1 .. Len(trace) : trace[k].op = op}
Happened(op) == Idx(op) # {}
\* every b step has an a step before it
Before(a, b) == \A j \in Idx(b) : \E k \in Idx(a) : k < j
IsPrefix(s, t) == Len(s) <= Len(t) /\ \A k \in 1 .. Len(s) : s[k] = t[k]
AnySpawned == \E i \in ArtifactIds : task[i] # "unspawned"

\* C1: with two or more artifacts listed, every download task has been
\* spawned by the time main waits on the first handle, so that two downloads
\* can be in progress together.
C1_AllSpawnedBeforeFirstWait ==
    (pc = "do_await" /\ Len(artifacts) >= 2) =>
        \A k \in 1 .. Len(artifacts) : task[artifacts[k]] # "unspawned"

\* C2: when the fetched job execution is not Completed the program ends in
\* failure: the job directory is not created, the working directory is not
\* changed, the artifacts are not listed and no download task is started.
C2_NotCompletedAborts ==
    job_status \in JobExecutionStatus \ {"Completed"} =>
        /\ pc \in {"do_check", "done"}
        /\ pc = "done" => exit = "panic"
        /\ dirs = {"."} /\ cwd = "."
        /\ ~Happened("create_dir_all") /\ ~Happened("set_current_dir")
        /\ ~Happened("artifact_list")
        /\ ~AnySpawned

C2_Witness ==
    job_status = "Failed" /\ pc = "done" /\ exit = "panic"

\* C3: once the download task of an artifact has failed and main has seen it,
\* the program has ended in failure, no later handle is spawned or waited for,
\* a program that ended with a failed task did not end in success, and what
\* the tasks that completed before it extracted is still on disk.
C3_FirstFailureFatalNoRollback ==
    /\ \A k \in Idx("join") :
         trace[k].out = "panicked" =>
             /\ pc = "done" /\ exit = "panic"
             /\ k = Len(trace)
    /\ (pc = "done" /\ \E i \in ArtifactIds : task[i] = "panicked") => exit = "panic"
    /\ \A j \in ArtifactIds :
         (task[j] = "finished" /\ Ev("untar", j, "success") \in {trace[k] : k \in 1 .. Len(trace)})
             => fs[<<"job", Extracted(j)>>] = "full"

C3_Witness ==
    /\ pc = "done" /\ exit = "panic"
    /\ \E i, j \in ArtifactIds :
         /\ task[i] = "panicked" /\ task[j] = "finished"
         /\ fs[<<"job", Extracted(j)>>] = "full"
         /\ Ev("join", i, "panicked") = trace[Len(trace)]

\* the steps of create_runtime the specification names, in its order; make
\* clean and make build are the two runs of the build tool
RuntimeSteps ==
    <<"marker_check", "make_clean", "make_build", "runtime_create", "put", "runtime_update">>
MarkerPresent ==
    listing.res = "Ok" /\ \E p \in listing.files : Contains(p, DotDice)
Named(steps) ==
    LET ops == [k \in 1 .. Len(trace) |-> trace[k].op]
    IN SelectSeq(ops, LAMBDA o : \E k \in 1 .. Len(steps) : steps[k] = o)

\* C4: create_runtime checks the marker, runs the build tool, requests the
\* upload URI, PUTs the tar and activates, in this order; with no marker file
\* in the directory nothing follows the check; activate never precedes the PUT.
C4_CreateRuntimeOrder ==
    executed = <<"create_runtime">> =>
        /\ IsPrefix(Named(RuntimeSteps), RuntimeSteps)
        /\ (pc # "cr_check" /\ ~MarkerPresent) => Len(trace) = 1
        /\ Before("put", "runtime_update")

C4_Witness ==
    /\ executed = <<"create_runtime">>
    /\ MarkerPresent
    /\ Named(RuntimeSteps) = RuntimeSteps
    /\ runtime = "Active"

\* C5: create_input_artifact tars, requests the upload URI, PUTs, deletes the
\* tar and activates, in this order; when the activate call is reached the
\* local tar file is gone and the PUT has been sent.
C5_TarDeletedBeforeActivate ==
    (executed = <<"create_input_artifact">> /\ (pc = "ia_update" \/ Happened("artifact_update"))) =>
        /\ fs[<<".", InputTar>>] = "absent"
        /\ Happened("put")

\* C6: a download task that finishes without failure has downloaded, written
\* <id>.tar, untarred it and deleted it: the tar file is gone from the job
\* directory and tar -xvf ran on the completely written file.
C6_FinishedTaskLeavesNoTar ==
    \A i \in ArtifactIds :
        task[i] = "finished" =>
            /\ fs[<<"job", Tar(i)>>] = "absent"
            /\ untar_input[i] = "full"

\* C7: whatever action flags are given, at most one action function is called.
C7_AtMostOneAction ==
    Len(executed) <= 1

C7_Witness ==
    /\ Cardinality(flags \ {"list_notifications"}) >= 2
    /\ Len(executed) = 1
    /\ pc = "done" /\ exit = "ok"

SimpleActions ==
    {"create_project", "create_job", "create_job_execution", "get_job_execution"}
ApiOf(a) ==
    CASE a = "create_project" -> "project_create"
      [] a = "create_job" -> "job_create"
      [] a = "create_job_execution" -> "job_execution_create"
      [] a = "get_job_execution" -> "job_execution_get"

\* C8: create project, create job, create job execution and get job execution
\* make exactly one remote API call, print after it has returned, and do
\* nothing to local files, directories or processes.
C8_OneCallThenShow ==
    \A a \in SimpleActions :
        executed = <<a>> =>
            /\ pc = "call" => trace = <<>>
            /\ pc # "call" => Cardinality(Idx(ApiOf(a))) = 1
            /\ \A k \in 1 .. Len(trace) : trace[k].op \in {ApiOf(a), "println"}
            /\ Cardinality(Idx("println")) <= 1
            /\ \A j \in Idx("println") : j = 2 /\ trace[1] = Ev(ApiOf(a), 0, "ok")
            /\ dirs = {"."} /\ cwd = "."
            /\ \A f \in Dirs \X FileNames : f # <<".", InputTar>> => fs[f] = "absent"

C8_Witness ==
    /\ executed = <<"get_job_execution">>
    /\ pc = "done" /\ exit = "ok"
    /\ trace = <<Ev("job_execution_get", 0, "ok"), Ev("println", 0, "get_job_execution")>>

Rejected(k) == trace[k].op = "put" /\ trace[k].out # "http_success"

\* C9: when the PUT fails or the server answers it with an error status, the
\* record is not set to Active, and create_input_artifact does not delete the
\* local tar file.
C9_NoActivateAfterRejectedPut ==
    (\E k \in 1 .. Len(trace) : Rejected(k)) =>
        /\ ~Happened("runtime_update") /\ ~Happened("artifact_update")
        /\ ~Happened("rm_tar")
        /\ runtime # "Active" /\ artifact # "Active"

BuildFailed ==
    \/ Ev("make_clean", 0, "exit_failure") \in {trace[k] : k \in 1 .. Len(trace)}
    \/ Ev("make_build", 0, "exit_failure") \in {trace[k] : k \in 1 .. Len(trace)}
    \/ Ev("open_tar", 0, "err") \in {trace[k] : k \in 1 .. Len(trace)}

\* C10: when create_runtime has ended and make clean or make build exited with
\* failure or the tar file could not be opened, no remote runtime record is
\* left behind that is neither uploaded nor activated.
C10_NoOrphanRuntimeRecord ==
    (executed = <<"create_runtime">> /\ pc \in {"main", "done"} /\ BuildFailed) =>
        ~(runtime = "Created" /\ "runtime" \notin stored)

====
